---- MODULE Spec2Model ----
(***************************************************************************)
(* Model of libactionkv (src/src/lib.rs): the split-file Bitcask-style     *)
(* key-value store.  The store is a directory with two files, "data" (an   *)
(* append-only log of records) and "index" (the serialized key->offset     *)
(* map, written at offset 0).  Files are modelled byte by byte; an engine  *)
(* handle (ActionKV) owns a cursor into each file and the in-memory index. *)
(***************************************************************************)
EXTENDS Integers, Sequences, FiniteSets, TLC

(***************************************************************************)
(* Bounds of the model.                                                    *)
(***************************************************************************)
\* at most this many records are ever appended to the data file
MaxRecords == 2

(***************************************************************************)
(* Bytes and byte strings.                                                 *)
(***************************************************************************)
\* const INDEX_KEY: &ByteStr = b"+index"
INDEX_KEY == <<43, 105, 110, 100, 101, 120>>

\* the keys and values that callers pass to the engine: the keys "a" and
\* "bbbbbbbbbbbbb" (two lengths, so that serialized indexes differ in length by
\* more than a record header), the values "1" and "2"
ShortKey == <<97>>
LongKey == [i \in 1..13 |-> 98]
UserKeys == {ShortKey, LongKey}
Values == {<<49>>, <<50>>}

\* capacity of std::io::BufReader::new
DEFAULT_BUF_SIZE == 8192

Max(a, b) == IF a > b THEN a ELSE b

\* write_u32::<LittleEndian> of a length below 2^31
LE32(n) == <<n % 256, (n \div 256) % 256, (n \div 65536) % 256, (n \div 16777216) % 256>>

\* bincode's fixed-width u64 of a length or offset below 2^31
LE64(n) == LE32(n) \o <<0, 0, 0, 0>>

\* read_u32::<LittleEndian>: the u32 as its 16-bit halves (it may exceed 2^31)
U32(b) == [hi |-> b[3] + 256 * b[4], lo |-> b[1] + 256 * b[2]]

\* key_len + value_len on u32: the wrapped sum and whether it overflowed
U32Add(x, y) ==
    LET lo == x.lo + y.lo
        hi == x.hi + y.hi + (lo \div 65536)
    IN [ovf |-> hi >= 65536, val |-> [hi |-> hi % 65536, lo |-> lo % 65536]]

\* x <= n for a u32 x and a natural n below 2^31
U32Le(x, n) == x.hi < 32768 /\ x.hi * 65536 + x.lo <= n

\* the natural number of a u32 known to be at most a natural below 2^31
U32Nat(x) == x.hi * 65536 + x.lo

(***************************************************************************)
(* crc32::checksum_ieee: CRC-32/IEEE, reflected polynomial 0xEDB88320,     *)
(* initial value and final xor 0xFFFFFFFF, computed by table over bytes.   *)
(* A 32-bit value is held as its four little-endian bytes.                 *)
(***************************************************************************)
RECURSIVE XorBits(_, _)
XorBits(a, b) ==
    IF a = 0 THEN b
    ELSE IF b = 0 THEN a
    ELSE ((a + b) % 2) + 2 * XorBits(a \div 2, b \div 2)

XOR8 == [a \in 0..255 |-> [b \in 0..255 |-> XorBits(a, b)]]

RECURSIVE CrcEntry(_, _, _)
CrcEntry(hi, lo, n) ==
    IF n = 0 THEN <<lo % 256, lo \div 256, hi % 256, hi \div 256>>
    ELSE LET shi == hi \div 2
             slo == (lo \div 2) + (hi % 2) * 32768
         IN IF lo % 2 = 1
            THEN CrcEntry(XorBits(shi, 60856), XorBits(slo, 33568), n - 1)
            ELSE CrcEntry(shi, slo, n - 1)

CRC_TABLE == [i \in 0..255 |-> CrcEntry(0, i, 8)]

CrcByte(crc, byte) ==
    LET t == CRC_TABLE[XOR8[crc[1]][byte]]
    IN <<XOR8[t[1]][crc[2]], XOR8[t[2]][crc[3]], XOR8[t[3]][crc[4]], t[4]>>

RECURSIVE CrcUpdate(_, _, _)
CrcUpdate(crc, bytes, i) ==
    IF i > Len(bytes) THEN crc
    ELSE LET next == CrcByte(crc, bytes[i])
         IN IF next[1] >= 0 THEN CrcUpdate(next, bytes, i + 1) ELSE next

checksum_ieee(bytes) ==
    LET c == CrcUpdate(<<255, 255, 255, 255>>, bytes, 1)
    IN <<255 - c[1], 255 - c[2], 255 - c[3], 255 - c[4]>>

(***************************************************************************)
(* The record layout written by insert_:                                   *)
(*   checksum | key_len | value_len | key | value                          *)
(***************************************************************************)
HEADER_LEN == 12

Encode(key, value) ==
    checksum_ieee(key \o value) \o LE32(Len(key)) \o LE32(Len(value)) \o key \o value

\* bytes [from, to) of a file, offsets counted from 0
Slice(f, from, to) == SubSeq(f, from + 1, to)

\* a write of bytes at offset pos of a file that is not opened for append
WriteAt(f, pos, bytes) ==
    [i \in 1..Max(Len(f), pos + Len(bytes)) |->
        IF i > pos /\ i <= pos + Len(bytes) THEN bytes[i - pos] ELSE f[i]]

\* position of the underlying file after a BufReader positioned at start has
\* filled its buffer once
BufferedCursor(start, len) ==
    IF len - start <= DEFAULT_BUF_SIZE THEN Max(start, len) ELSE start + DEFAULT_BUF_SIZE

(***************************************************************************)
(* process_records: decode one record of file f at offset pos.  The result *)
(* depends on the build profile (debug builds check the u32 addition and   *)
(* the debug_assert_eq), so the operator yields the set of outcomes.       *)
(***************************************************************************)
Eof == [kind |-> "eof"]
Panic == [kind |-> "panic"]

process_records_in(f, pos, debug) ==
    LET rem == Len(f) - pos
    IN IF rem < HEADER_LEN THEN Eof
       ELSE LET saved_checksum == Slice(f, pos, pos + 4)
                key_len == U32(Slice(f, pos + 4, pos + 8))
                value_len == U32(Slice(f, pos + 8, pos + 12))
                sum == U32Add(key_len, value_len)
                data_len == sum.val
                avail == rem - HEADER_LEN
                n == IF U32Le(data_len, avail) THEN U32Nat(data_len) ELSE avail
                data == Slice(f, pos + HEADER_LEN, pos + HEADER_LEN + n)
            IN IF debug /\ sum.ovf THEN Panic
               ELSE IF debug /\ ~U32Le(data_len, avail) THEN Panic
               ELSE IF checksum_ieee(data) # saved_checksum THEN Panic
               ELSE IF ~U32Le(key_len, n) THEN Panic
               ELSE [kind |-> "ok",
                     key |-> SubSeq(data, 1, U32Nat(key_len)),
                     value |-> SubSeq(data, U32Nat(key_len) + 1, n),
                     pos |-> pos + HEADER_LEN + n]

process_records(f, pos) ==
    {process_records_in(f, pos, TRUE), process_records_in(f, pos, FALSE)}

(***************************************************************************)
(* The in-memory index, HashMap<ByteString, u64>, as a function from keys  *)
(* to offsets.                                                             *)
(***************************************************************************)
\* HashMap::new()
EmptyIndex == [k \in {} |-> 0]

\* HashMap::insert
Put(m, k, o) == [x \in (DOMAIN m) \cup {k} |-> IF x = k THEN o ELSE m[x]]

\* HashMap::remove
Remove(m, k) == [x \in (DOMAIN m) \ {k} |-> m[x]]

\* the orders in which a HashMap may iterate over the keys S
RECURSIVE Orderings(_)
Orderings(S) ==
    IF S = {} THEN {<<>>}
    ELSE UNION {{<<k>> \o rest : rest \in Orderings(S \ {k})} : k \in S}

(***************************************************************************)
(* bincode::serialize / bincode::deserialize of the index: a u64 entry     *)
(* count, then per entry a u64 key length, the key bytes and the u64       *)
(* offset, all fixed-width little-endian.                                  *)
(***************************************************************************)
RECURSIVE SerializeEntries(_, _, _)
SerializeEntries(m, order, i) ==
    IF i > Len(order) THEN <<>>
    ELSE LE64(Len(order[i])) \o order[i] \o LE64(m[order[i]])
         \o SerializeEntries(m, order, i + 1)

\* the bytes of m when the map iterates in the given order of its keys
serialize(m, order) == LE64(Len(order)) \o SerializeEntries(m, order, 1)

\* a u64 at offset p of b: "short" when fewer than 8 bytes are left, "huge"
\* when the value is 2^31 or more
ReadU64(b, p) ==
    IF p + 8 > Len(b) THEN [kind |-> "short"]
    ELSE IF b[p + 4] >= 128 \/ Slice(b, p + 4, p + 8) # <<0, 0, 0, 0>>
         THEN [kind |-> "huge"]
         ELSE [kind |-> "nat",
               val |-> b[p + 1] + 256 * b[p + 2] + 65536 * b[p + 3] + 16777216 * b[p + 4]]

RECURSIVE DeserializeEntries(_, _, _, _)
DeserializeEntries(b, p, n, m) ==
    IF n = 0 THEN [ok |-> TRUE, index |-> m]
    ELSE LET klen == ReadU64(b, p)
         IN IF klen.kind # "nat" \/ p + 8 + klen.val > Len(b) THEN [ok |-> FALSE]
            ELSE LET key == Slice(b, p + 8, p + 8 + klen.val)
                     off == ReadU64(b, p + 8 + klen.val)
                 IN \* an offset of 2^31 or more is outside the range of the model
                    IF off.kind # "nat" THEN [ok |-> FALSE]
                    ELSE DeserializeEntries(b, p + 16 + klen.val, n - 1, Put(m, key, off.val))

\* bincode::deserialize::<HashMap<ByteString, u64>>; trailing bytes are allowed
deserialize(b) ==
    LET count == ReadU64(b, 0)
    IN IF count.kind = "short" THEN [ok |-> FALSE]
       ELSE IF count.kind = "huge" \/ 8 + 16 * count.val > Len(b) THEN [ok |-> FALSE]
       ELSE DeserializeEntries(b, 8, count.val, EmptyIndex)

(***************************************************************************)
(* State.                                                                  *)
(***************************************************************************)
VARIABLES
    data_file,   \* bytes of <path>/data
    index_file,  \* bytes of <path>/index
    kv,          \* the ActionKV value behind each handle
    last,        \* the latest call: operation, handle, arguments and result
    hist,        \* history: the (key, value) pairs appended to the data file
    run,         \* history: the inserts/updates of one key since the load
    snap         \* history: what get returned for each key at the last close

vars == <<data_file, index_file, kv, last, hist, run, snap>>

\* the handles that a model may hold on the store at the same time
Handles == {1, 2}

\* an ActionKV that is not open (before open, after drop)
Closed == [open |-> FALSE, loaded |-> FALSE, index |-> EmptyIndex, file_ |-> 0, index_ |-> 0]

NoRun == [active |-> FALSE]
NoSnap == [taken |-> FALSE]

Ok == [kind |-> "Ok"]
None == [kind |-> "None"]
Err == [kind |-> "Err"]
Some(v) == [kind |-> "Some", value |-> v]
Pair(k, v) == [kind |-> "Pair", key |-> k, value |-> v]
Found(o, v) == [kind |-> "Some", offset |-> o, value |-> v]

(***************************************************************************)
(* ActionKV::open: both files are created when missing; the data file is   *)
(* opened for append, the cursors start at 0 and the index is empty.       *)
(***************************************************************************)
open == [open |-> TRUE, loaded |-> FALSE, index |-> EmptyIndex, file_ |-> 0, index_ |-> 0]

(***************************************************************************)
(* ActionKV::insert_: the record is appended to the data file (append      *)
(* mode) or written at offset 0 of the index file; the offset put into the *)
(* index is the cursor position observed before the seek.                  *)
(***************************************************************************)
\* the record of the index is appended to the data file as well
insert_embedded(e, data, index, key, value, saving_index) ==
    LET rec == Encode(key, value)
        current_position == IF saving_index THEN 0 ELSE e.file_
    IN IF saving_index
       THEN [e |-> [e EXCEPT !.index = Put(@, key, current_position), !.index_ = Len(rec)],
             data |-> data \o rec,
             index |-> WriteAt(index, 0, rec)]
       ELSE [e |-> [e EXCEPT !.index = Put(@, key, current_position),
                             !.file_ = Len(data) + Len(rec)],
             data |-> data \o rec,
             index |-> index]

insert_(e, data, index, key, value, saving_index) ==
    LET rec == Encode(key, value)
        current_position == IF saving_index THEN 0 ELSE e.file_
    IN IF saving_index
       THEN [e |-> [e EXCEPT !.index = Put(@, key, current_position), !.index_ = Len(rec)],
             data |-> data,
             index |-> WriteAt(index, 0, rec)]
       ELSE [e |-> [e EXCEPT !.index = Put(@, key, current_position),
                             !.file_ = Len(data) + Len(rec)],
             data |-> data \o rec,
             index |-> index]

(***************************************************************************)
(* ActionKV::store_index_on_disk, with the order in which the map iterates *)
(***************************************************************************)
\* mutant: the in-memory index is not reset before the index is saved
store_index_on_disk_keep(e, data, index, index_key, order) ==
    LET index_as_bytes == serialize(Remove(e.index, index_key), order)
    IN insert_([e EXCEPT !.index = Remove(@, index_key)], data, index, index_key,
               index_as_bytes, TRUE)

store_index_on_disk(e, data, index, index_key, order) ==
    LET index_as_bytes == serialize(Remove(e.index, index_key), order)
    IN insert_([e EXCEPT !.index = EmptyIndex], data, index, index_key, index_as_bytes, TRUE)

(***************************************************************************)
(* ActionKV::insert, ActionKV::update, ActionKV::delete: the possible      *)
(* results, one per iteration order of the map.                            *)
(***************************************************************************)
insert(e, data, index, key, value) ==
    LET s == insert_(e, data, index, key, value, FALSE)
    IN {store_index_on_disk(s.e, s.data, s.index, INDEX_KEY, order) :
            order \in Orderings(DOMAIN Remove(s.e.index, INDEX_KEY))}

update(e, data, index, key, value) == insert(e, data, index, key, value)

delete(e, data, index, key) ==
    {[r EXCEPT !.e.index = Remove(@, key)] : r \in insert(e, data, index, key, <<>>)}

(***************************************************************************)
(* ActionKV::get_at: seek to the offset and decode one record through a    *)
(* BufReader; yields the decoder's outcomes with the engine after the read.*)
(***************************************************************************)
\* a positional read that ignores its offset and decodes the first record
get_at_start(e, data, index, offset, get_index) ==
    LET f == IF get_index THEN index ELSE data
    IN {[kv |-> r,
         e |-> IF get_index
               THEN [e EXCEPT !.index_ = BufferedCursor(0, Len(f))]
               ELSE [e EXCEPT !.file_ = BufferedCursor(0, Len(f))]] :
            r \in process_records(f, 0)}

get_at(e, data, index, offset, get_index) ==
    LET f == IF get_index THEN index ELSE data
    IN {[kv |-> r,
         e |-> IF get_index
               THEN [e EXCEPT !.index_ = BufferedCursor(offset, Len(f))]
               ELSE [e EXCEPT !.file_ = BufferedCursor(offset, Len(f))]] :
            r \in process_records(f, offset)}

(***************************************************************************)
(* ActionKV::get: when the index holds the entry of INDEX_KEY the index is *)
(* first replaced by the one decoded from the index file.                  *)
(***************************************************************************)
get_lookup(e, data, index, key) ==
    IF key \in DOMAIN e.index
    THEN {IF g.kv.kind = "ok" THEN [result |-> Some(g.kv.value), e |-> g.e]
                              ELSE [result |-> Panic, e |-> g.e] :
            g \in get_at(e, data, index, e.index[key], FALSE)}
    ELSE {[result |-> None, e |-> e]}

get(e, data, index, key) ==
    IF INDEX_KEY \in DOMAIN e.index
    THEN UNION {
            IF g.kv.kind = "eof" THEN {[result |-> Err, e |-> g.e]}
            ELSE IF g.kv.kind = "panic" THEN {[result |-> Panic, e |-> g.e]}
            ELSE LET index_decoded == deserialize(g.kv.value)
                 IN IF ~index_decoded.ok THEN {[result |-> Panic, e |-> g.e]}
                    ELSE get_lookup([g.e EXCEPT !.index = index_decoded.index],
                                    data, index, key) :
            g \in get_at(e, data, index, e.index[INDEX_KEY], TRUE)}
    ELSE get_lookup(e, data, index, key)

(***************************************************************************)
(* ActionKV::find: scan of the data file from offset 0.                    *)
(***************************************************************************)
\* mutant: the scan keeps the first record of the key instead of the last
RECURSIVE find_loop_first(_, _, _, _)
find_loop_first(f, key, position, found_key_value) ==
    UNION {
        IF r.kind = "eof" THEN {[result |-> found_key_value, position |-> position]}
        ELSE IF r.kind = "panic" THEN {[result |-> Panic, position |-> position]}
        ELSE find_loop_first(f, key, r.pos,
                             IF key = r.key /\ found_key_value = None
                             THEN Found(position, r.value) ELSE found_key_value) :
        r \in process_records(f, position)}

RECURSIVE find_loop(_, _, _, _)
find_loop(f, key, position, found_key_value) ==
    UNION {
        IF r.kind = "eof" THEN {[result |-> found_key_value, position |-> position]}
        ELSE IF r.kind = "panic" THEN {[result |-> Panic, position |-> position]}
        ELSE find_loop(f, key, r.pos,
                       IF key = r.key THEN Found(position, r.value) ELSE found_key_value) :
        r \in process_records(f, position)}

find(e, data, key) ==
    {[result |-> s.result,
      e |-> [e EXCEPT !.file_ = BufferedCursor(s.position, Len(data))]] :
        s \in find_loop(data, key, 0, None)}

(***************************************************************************)
(* ActionKV::load: decode the index file from the cursor of the handle to  *)
(* the end; every decoded record replaces the index.                       *)
(***************************************************************************)
RECURSIVE load_loop(_, _, _)
load_loop(f, position, m) ==
    UNION {
        IF r.kind = "eof" THEN {[result |-> Ok, index |-> m, position |-> position]}
        ELSE IF r.kind = "panic" THEN {[result |-> Panic, index |-> m, position |-> position]}
        ELSE LET index_decoded == deserialize(r.value)
             IN IF ~index_decoded.ok
                THEN {[result |-> Panic, index |-> m, position |-> position]}
                ELSE load_loop(f, r.pos, index_decoded.index) :
        r \in process_records(f, position)}

load(e, index) ==
    {[result |-> s.result,
      e |-> [e EXCEPT !.index = s.index,
                      !.index_ = BufferedCursor(s.position, Len(index))]] :
        s \in load_loop(index, e.index_, e.index)}

(***************************************************************************)
(* Actions: one per public operation of ActionKV, called through handle h. *)
(* A panic unwinds the caller, which drops the engine.                     *)
(***************************************************************************)
\* loaded: whether the engine had been loaded when the call was made
Call(op, h, loaded, key, value, result) ==
    [op |-> op, h |-> h, loaded |-> loaded, key |-> key, value |-> value,
     result |-> result]

\* the results that get(key) can return on engine e
GetResults(e, key) == {r.result : r \in get(e, data_file, index_file, key)}

Init ==
    /\ data_file = <<>>
    /\ index_file = <<>>
    /\ kv = [h \in Handles |-> Closed]
    /\ last = Call("none", 0, FALSE, <<>>, <<>>, Ok)
    /\ hist = <<>>
    /\ run = NoRun
    /\ snap = NoSnap

Open(h) ==
    /\ ~kv[h].open
    /\ kv' = [kv EXCEPT ![h] = open]
    /\ last' = Call("open", h, FALSE, <<>>, <<>>, Ok)
    /\ run' = NoRun
    /\ UNCHANGED <<data_file, index_file, hist, snap>>

Close(h) ==
    /\ kv[h].open
    /\ kv' = [kv EXCEPT ![h] = Closed]
    /\ last' = Call("close", h, kv[h].loaded, <<>>, <<>>, Ok)
    /\ run' = NoRun
    /\ snap' = IF kv[h].loaded
               THEN [taken |-> TRUE, h |-> h,
                     view |-> [k \in UserKeys |-> GetResults(kv[h], k)]]
               ELSE NoSnap
    /\ UNCHANGED <<data_file, index_file, hist>>

Load(h) ==
    /\ kv[h].open
    /\ \E r \in load(kv[h], index_file) :
        /\ kv' = [kv EXCEPT ![h] = IF r.result = Panic THEN Closed
                                   ELSE [r.e EXCEPT !.loaded = TRUE]]
        /\ last' = Call("load", h, kv[h].loaded, <<>>, <<>>, r.result)
        /\ run' = IF r.result = Ok
                  THEN [active |-> TRUE, h |-> h, key |-> <<>>, value |-> <<>>]
                  ELSE NoRun
    /\ snap' = IF last.op = "open" /\ last.h = h THEN snap ELSE NoSnap
    /\ UNCHANGED <<data_file, index_file, hist>>

\* the effect of a mutating call whose possible results are rs
Mutate(op, h, key, value, rs) ==
    /\ kv[h].open
    /\ Len(hist) < MaxRecords
    /\ \E r \in rs :
        /\ kv' = [kv EXCEPT ![h] = r.e]
        /\ data_file' = r.data
        /\ index_file' = r.index
    /\ last' = Call(op, h, kv[h].loaded, key, value, Ok)
    /\ hist' = Append(hist, [key |-> key, value |-> value])
    /\ run' = IF /\ op # "delete"
                 /\ run.active
                 /\ run.h = h
                 /\ key # INDEX_KEY
                 /\ run.key \in {<<>>, key}
              THEN [run EXCEPT !.key = key, !.value = value]
              ELSE NoRun
    /\ snap' = NoSnap

Insert(h, key, value) ==
    Mutate("insert", h, key, value, insert(kv[h], data_file, index_file, key, value))

Update(h, key, value) ==
    Mutate("update", h, key, value, update(kv[h], data_file, index_file, key, value))

Delete(h, key) ==
    Mutate("delete", h, key, <<>>, delete(kv[h], data_file, index_file, key))

Get(h, key) ==
    /\ kv[h].open
    /\ \E r \in get(kv[h], data_file, index_file, key) :
        /\ kv' = [kv EXCEPT ![h] = IF r.result = Panic THEN Closed ELSE r.e]
        /\ last' = Call("get", h, kv[h].loaded, key, <<>>, r.result)
    /\ run' = IF run.active /\ run.h = h /\ run.key = key THEN run ELSE NoRun
    /\ snap' = NoSnap
    /\ UNCHANGED <<data_file, index_file, hist>>

Find(h, key) ==
    /\ kv[h].open
    /\ \E r \in find(kv[h], data_file, key) :
        /\ kv' = [kv EXCEPT ![h] = IF r.result = Panic THEN Closed ELSE r.e]
        /\ last' = Call("find", h, kv[h].loaded, key, <<>>, r.result)
    /\ run' = NoRun
    /\ snap' = NoSnap
    /\ UNCHANGED <<data_file, index_file, hist>>

\* the size of a record: the header, the key and the value
RecordSize(r) == HEADER_LEN + Len(r.key) + Len(r.value)

\* the offset at which the i-th appended record begins
RECURSIVE RecordOffset(_)
RecordOffset(i) == IF i <= 1 THEN 0 ELSE RecordOffset(i - 1) + RecordSize(hist[i - 1])

\* the offsets a caller passes to get_at: the starts of the records appended
\* so far and the end of the data file
Offsets == {RecordOffset(i) : i \in 1..Len(hist)} \cup {Len(data_file)}

\* the largest length of the data file: every record holds the long key and
\* a one-byte value
MaxOffset == MaxRecords * (HEADER_LEN + Len(LongKey) + 1)

\* get_at(offset, false): the positional read of the data file, as the
\* repository's test_get_at calls it
GetAt(h, offset) ==
    /\ kv[h].open
    /\ offset \in Offsets
    /\ \E r \in get_at(kv[h], data_file, index_file, offset, FALSE) :
        /\ kv' = [kv EXCEPT ![h] = IF r.kv = Panic THEN Closed ELSE r.e]
        /\ last' = [op |-> "get_at", h |-> h, loaded |-> kv[h].loaded,
                    key |-> <<>>, value |-> <<>>, offset |-> offset,
                    result |-> IF r.kv = Panic THEN Panic
                               ELSE IF r.kv = Eof THEN Err
                               ELSE Pair(r.kv.key, r.kv.value)]
    /\ run' = NoRun
    /\ snap' = NoSnap
    /\ UNCHANGED <<data_file, index_file, hist>>

\* the calls that the holders of the handles H can make with the keys K
Step(H, K) ==
    \E h \in H :
        \/ Open(h)
        \/ Close(h)
        \/ Load(h)
        \/ \E key \in K, value \in Values : Insert(h, key, value)
        \/ \E key \in K, value \in Values : Update(h, key, value)
        \/ \E key \in K : Delete(h, key)
        \/ \E key \in K : Get(h, key)
        \/ \E key \in K : Find(h, key)

\* one engine at a time on the store, user keys only
Next == Step({1}, UserKeys)
Spec == Init /\ [][Next]_vars

\* one engine at a time; callers also pass the reserved key
NextReserved == Step({1}, {ShortKey, INDEX_KEY})
SpecReserved == Init /\ [][NextReserved]_vars

\* one engine whose holder also reads records back by their offsets, as the
\* repository's test_get_at does after its inserts
NextRead ==
    \/ Open(1)
    \/ Close(1)
    \/ Load(1)
    \/ \E key \in UserKeys, value \in Values : Insert(1, key, value)
    \/ \E key \in UserKeys : Delete(1, key)
    \/ \E key \in UserKeys : Get(1, key)
    \/ \E offset \in 0..MaxOffset : GetAt(1, offset)
SpecRead == Init /\ [][NextRead]_vars

\* two engines opened on the same store: each appends records under its own
\* key, the first one also deletes, and both scan the log
Writer(h, key) ==
    \/ Open(h)
    \/ Load(h)
    \/ \E value \in Values : Insert(h, key, value)
    \/ Delete(h, key)

NextShared ==
    \/ Writer(1, ShortKey)
    \/ Open(2)
    \/ \E value \in Values : Insert(2, LongKey, value)
    \/ \E h \in Handles, key \in UserKeys : Find(h, key)
SpecShared == Init /\ [][NextShared]_vars

(***************************************************************************)
(* Damage to the files between two runs of the program: a header field of  *)
(* a record overwritten on disk, or the tail of the data file lost in a    *)
(* crash during an append.  The damage happens while no engine is open.    *)
(***************************************************************************)
\* the data file as the appends wrote it
RECURSIVE Log(_)
Log(n) == IF n = 0 THEN <<>> ELSE Log(n - 1) \o Encode(hist[n].key, hist[n].value)

Intact == data_file = Log(Len(hist))

\* offsets in the header of the checksum, key_len and value_len fields
Fields == {0, 4, 8}

\* the bytes that overwrite a damaged field
AllOnes == <<255, 255, 255, 255>>

Fault(op) == Call(op, 0, FALSE, <<>>, <<>>, Ok)

\* a header field of the i-th record of the data file is overwritten
CorruptData(i, field) ==
    /\ \A h \in Handles : ~kv[h].open
    /\ Intact
    /\ i \in 1..Len(hist)
    /\ data_file' = WriteAt(data_file, RecordOffset(i) + field, AllOnes)
    /\ data_file' # data_file
    /\ last' = Fault("corrupt")
    /\ run' = NoRun
    /\ snap' = NoSnap
    /\ UNCHANGED <<index_file, kv, hist>>

\* a header field of the record of the index file is overwritten
CorruptIndex(field) ==
    /\ \A h \in Handles : ~kv[h].open
    /\ Intact
    /\ process_records_in(index_file, 0, FALSE).kind = "ok"
    /\ index_file' = WriteAt(index_file, field, AllOnes)
    /\ index_file' # index_file
    /\ last' = Fault("corrupt")
    /\ run' = NoRun
    /\ snap' = NoSnap
    /\ UNCHANGED <<data_file, kv, hist>>

\* how many bytes of the last record survive a torn append: one byte, a
\* header short of one byte, the whole header, all but the last byte
TornCuts(r) == {1, HEADER_LEN - 1, HEADER_LEN, RecordSize(r) - 1}

\* the last append reached the disk only up to its first keep bytes
Truncate ==
    /\ \A h \in Handles : ~kv[h].open
    /\ Intact
    /\ hist # <<>>
    /\ \E keep \in TornCuts(hist[Len(hist)]) :
        data_file' = SubSeq(data_file, 1, RecordOffset(Len(hist)) + keep)
    /\ last' = Fault("truncate")
    /\ run' = NoRun
    /\ snap' = NoSnap
    /\ UNCHANGED <<index_file, kv, hist>>

\* one engine at a time, one user key, on a store whose files can be damaged
\* between runs
NextFault ==
    \/ Step({1}, {ShortKey})
    \/ \E offset \in 0..MaxOffset : GetAt(1, offset)
    \/ \E i \in 1..MaxRecords, field \in Fields : CorruptData(i, field)
    \/ \E field \in Fields : CorruptIndex(field)
    \/ Truncate
SpecFault == Init /\ [][NextFault]_vars

(***************************************************************************)
(* What the history of appended records says about a key.                  *)
(***************************************************************************)
\* index in hist of the latest record appended for key, 0 when there is none
LastRecord(key) ==
    LET S == {i \in 1..Len(hist) : hist[i].key = key}
    IN IF S = {} THEN 0 ELSE CHOOSE i \in S : \A j \in S : j <= i

\* key was inserted or updated and not deleted since
Live(key) == LastRecord(key) > 0 /\ hist[LastRecord(key)].value # <<>>

\* key was inserted and its latest record is the tombstone of a delete
Tombstoned(key) ==
    /\ LastRecord(key) > 0
    /\ hist[LastRecord(key)].value = <<>>
    /\ \E i \in 1..Len(hist) : hist[i].key = key /\ hist[i].value # <<>>

\* the value of the most recent insert/update of key, absent when the key was
\* never inserted or was deleted since
Latest(key) == IF Live(key) THEN Some(hist[LastRecord(key)].value) ELSE None

\* the index that the record at offset 0 of an index file decodes to
PersistedIn(f) ==
    LET r == process_records_in(f, 0, FALSE)
    IN IF r.kind # "ok" THEN EmptyIndex
       ELSE LET d == deserialize(r.value)
            IN IF d.ok THEN d.index ELSE EmptyIndex

PersistedIndex == PersistedIn(index_file)

(***************************************************************************)
(* Claims.                                                                 *)
(***************************************************************************)
\* C1: on a loaded engine, after a non-empty sequence of insert/update calls
\* for one user key, the next get of that key returns Some of the value of the
\* final call.
C1_RoundTrip ==
    (last.op = "get" /\ run.active /\ run.h = last.h /\ run.key = last.key)
        => last.result = Some(run.value)

\* C2: on a loaded engine get(k) returns, for every key k, the value of the
\* most recent insert/update of k, and absent only if k was never inserted or
\* was deleted since.
C2_NoKeyLost ==
    (last.op = "get" /\ last.loaded) => last.result = Latest(last.key)

\* C3: after insert(k, v) and delete(k), get(k) returns absent, and k is
\* mapped neither by the in-memory index nor by the persisted index.
C3_Tombstone ==
    \A key \in UserKeys :
        Tombstoned(key) =>
            /\ (last.op = "get" /\ last.key = key) => last.result = None
            /\ key \notin DOMAIN PersistedIndex
            /\ \A h \in Handles : key \notin DOMAIN kv[h].index

\* C4: after a clean close of a loaded engine, open and load succeed and get
\* returns for every key what it returned just before the close.
C4_Durability ==
    (last.op = "load" /\ snap.taken /\ snap.h = last.h) =>
        /\ last.result = Ok
        /\ \A key \in UserKeys : GetResults(kv[last.h], key) = snap.view[key]

ReservedKey == [kind |-> "ReservedKey"]
NotLoaded == [kind |-> "NotLoaded"]

\* C5: insert, update and delete of the reserved key fail with ReservedKey
\* and change neither the data file, nor the index file, nor the in-memory
\* index.
C5_ReservedKeyRejected ==
    [][(last'.op \in {"insert", "update", "delete"} /\ last'.key = INDEX_KEY) =>
            /\ last'.result = ReservedKey
            /\ data_file' = data_file
            /\ index_file' = index_file
            /\ kv'[last'.h].index = kv[last'.h].index]_vars

\* C6: in every reachable state get of the reserved key and find of the
\* reserved key return absent.
C6_ReservedKeyHidden ==
    \A h \in Handles :
        kv[h].open =>
            /\ GetResults(kv[h], INDEX_KEY) = {None}
            /\ {r.result : r \in find(kv[h], data_file, INDEX_KEY)} = {None}

\* C7: find(k) returns the offset and the value of the last record appended
\* with key k, a tombstone included, through whichever handle it was appended,
\* and absent when no record has key k; the first record is at offset 0.
C7_FindLastRecord ==
    (last.op = "find") =>
        last.result = IF LastRecord(last.key) = 0 THEN None
                      ELSE Found(RecordOffset(LastRecord(last.key)),
                                 hist[LastRecord(last.key)].value)

\* C7 witness: the second engine finds, past an earlier record of the key, the
\* tombstone that the first engine appended.
C7_Witness ==
    /\ last.op = "find"
    /\ last.h = 2
    /\ last.key = ShortKey
    /\ last.result.kind = "Some"
    /\ last.result.value = <<>>
    /\ last.result.offset > 0
    /\ hist[1].key = ShortKey

\* C8: for every live key the offset that the index holds equals the offset
\* that find reports, and get returns Some of the value that find reports.
C8_FindGetAgree ==
    \A h \in Handles :
        (kv[h].open /\ kv[h].loaded) =>
            \A key \in UserKeys :
                Live(key) =>
                    \A g \in get(kv[h], data_file, index_file, key) :
                        \A f \in find(kv[h], data_file, key) :
                            /\ f.result.kind = "Some"
                            /\ g.result = Some(f.result.value)
                            /\ key \in DOMAIN g.e.index
                            /\ g.e.index[key] = f.result.offset

\* the engines that load can leave behind handle h
AsIfLoaded(h) == {l.e : l \in {x \in load(kv[h], index_file) : x.result = Ok}}

\* C9: a get or a mutation called right after open, before any load, on a
\* store that holds persisted keys, either fails with NotLoaded or gives the
\* result and the persisted index that it gives when load is called first.
C9_UnloadedCall ==
    [][(/\ last'.op \in {"get", "insert", "update", "delete"}
        /\ last.op = "open"
        /\ last.h = last'.h
        /\ DOMAIN PersistedIndex # {}) =>
            \/ last'.result = NotLoaded
            \/ /\ last'.op = "get"
               /\ \E e \in AsIfLoaded(last'.h) :
                    last'.result \in
                        {g.result : g \in get(e, data_file, index_file, last'.key)}
            \/ /\ last'.op \in {"insert", "update"}
               /\ \E e \in AsIfLoaded(last'.h) :
                    PersistedIn(index_file') \in
                        {PersistedIn(r.index) :
                            r \in insert(e, data_file, index_file, last'.key, last'.value)}
            \/ /\ last'.op = "delete"
               /\ \E e \in AsIfLoaded(last'.h) :
                    PersistedIn(index_file') \in
                        {PersistedIn(r.index) :
                            r \in delete(e, data_file, index_file, last'.key)}]_vars

\* C10: load on an empty store leaves the in-memory index empty, and right
\* after every insert the in-memory index holds exactly one entry, the one of
\* the reserved key, at offset 0.
C10_IndexShape ==
    /\ (last.op = "load" /\ last.result = Ok /\ hist = <<>>) =>
            kv[last.h].index = EmptyIndex
    /\ (last.op = "insert") =>
            /\ DOMAIN kv[last.h].index = {INDEX_KEY}
            /\ kv[last.h].index[INDEX_KEY] = 0

\* C10 witness: two inserts of distinct keys in a row (no get reloaded the
\* index in between, so the persisted index maps the second key only).
C10_Witness ==
    /\ last.op = "insert"
    /\ Len(hist) = 2
    /\ hist[1].key # hist[2].key
    /\ hist[1].value # <<>>
    /\ DOMAIN PersistedIndex = {hist[2].key}
    /\ Cardinality(DOMAIN kv[last.h].index) = 1

\* C12: the positional read of the data file at the offset where a record
\* (k, v) was appended returns exactly that pair, for keys and values of any
\* length and for the empty value of a tombstone, and leaves the in-memory
\* index as it was; at offset 0 it returns the first pair inserted.
C12_PositionalRead ==
    [][last'.op = "get_at" =>
        /\ kv[last'.h].open => kv'[last'.h].index = kv[last'.h].index
        /\ \A i \in 1..Len(hist) :
            last'.offset = RecordOffset(i)
                => last'.result = Pair(hist[i].key, hist[i].value)]_vars

\* a tombstone that is not the first record was read back at its offset
C12_Witness ==
    /\ last.op = "get_at"
    /\ last.offset > 0
    /\ last.result.kind = "Pair"
    /\ last.result.value = <<>>
    /\ last.result.key # hist[1].key

(***************************************************************************)
(* The errors of the specification's taxonomy, as results of a call.       *)
(***************************************************************************)
Corruption == [kind |-> "Corruption"]
TruncatedRecord == [kind |-> "TruncatedRecord"]
OversizedRecord == [kind |-> "OversizedRecord"]
IndexDesync == [kind |-> "IndexDesync"]

\* the record at pos of f is complete and its stored checksum is not the
\* CRC-32 of its key and value bytes
ChecksumMismatch(f, pos) ==
    /\ Len(f) - pos >= HEADER_LEN
    /\ LET key_len == U32(Slice(f, pos + 4, pos + 8))
           value_len == U32(Slice(f, pos + 8, pos + 12))
           sum == U32Add(key_len, value_len)
           avail == Len(f) - pos - HEADER_LEN
       IN /\ ~sum.ovf
          /\ U32Le(sum.val, avail)
          /\ checksum_ieee(Slice(f, pos + HEADER_LEN,
                                 pos + HEADER_LEN + U32Nat(sum.val)))
                # Slice(f, pos, pos + 4)

\* the first record that the call op of the engine e decodes has a stored
\* checksum that does not match
ReadsMismatch(op, e, key) ==
    /\ e.open
    /\ \/ op = "load" /\ ChecksumMismatch(index_file, e.index_)
       \/ op = "find" /\ ChecksumMismatch(data_file, 0)
       \/ /\ op = "get"
          /\ IF INDEX_KEY \in DOMAIN e.index
             THEN ChecksumMismatch(index_file, 0)
             ELSE /\ key \in DOMAIN e.index
                  /\ ChecksumMismatch(data_file, e.index[key])

\* C11: a get, find or load that decodes a record whose stored checksum does
\* not match the CRC-32 of its key and value returns the Corruption error to
\* the caller: it neither ends the process nor yields a value.
C11_CorruptionIsError ==
    [][(last'.op \in {"get", "find", "load"}
            /\ ReadsMismatch(last'.op, kv[last'.h], last'.key))
        => last'.result = Corruption]_vars

\* the results that get(key) can return on the engine e over the files d, x
GetOn(e, d, x, key) == {r.result : r \in get(e, d, x, key)}

\* C13: load on an engine that is already loaded, directly after the first
\* load or after any sequence of mutations and gets, succeeds and leaves the
\* result of get(k) unchanged for every key k.
C13_LoadIdempotent ==
    [][(last'.op = "load" /\ kv[last'.h].open /\ kv[last'.h].loaded)
        => /\ last'.result = Ok
           /\ \A key \in UserKeys :
                GetOn(kv'[last'.h], data_file', index_file', key)
                    = GetOn(kv[last'.h], data_file, index_file, key)]_vars

\* C14: every insert, update or delete of a key k, in every reachable state
\* of the engine, stores for k the length that the data file had immediately
\* before the append.
C14_OffsetIsOldLength ==
    [][(last'.op \in {"insert", "update", "delete"} /\ last'.result = Ok)
        => /\ last'.key \in DOMAIN PersistedIn(index_file')
           /\ PersistedIn(index_file')[last'.key] = Len(data_file)]_vars

\* every user key of the map m is mapped to the first byte of a record that
\* was appended under that key
PointsAtOwnRecords(m) ==
    \A key \in DOMAIN m \ {INDEX_KEY} :
        \E i \in 1..Len(hist) : m[key] = RecordOffset(i) /\ hist[i].key = key

\* C15: every user key that the index maps, in memory or in the index file,
\* points at the first byte of a data record stored under that key, and
\* get(k) returns the value of a record of k, or nothing, or fails with
\* IndexDesync: never the value of a record stored under another key.
C15_IndexLogAgreement ==
    /\ PointsAtOwnRecords(PersistedIndex)
    /\ \A h \in Handles : kv[h].open => PointsAtOwnRecords(kv[h].index)
    /\ last.op = "get" =>
            \/ last.result \in {None, IndexDesync}
            \/ \E i \in 1..Len(hist) :
                    hist[i].key = last.key /\ last.result = Some(hist[i].value)

\* C16: after every mutation the index file consists of exactly the latest
\* serialized index record at offset 0: its length is the length of that
\* record, no bytes of an earlier and longer record remain behind it, and a
\* sequential decode yields one record and then a clean end.
C16_OneIndexRecord ==
    last.op \in {"insert", "update", "delete"} /\ last.result = Ok
        => LET r == process_records_in(index_file, 0, FALSE)
           IN /\ r.kind = "ok"
              /\ r.key = INDEX_KEY
              /\ r.pos = Len(index_file)

\* C17: the data file is an append-only log.  Each successful insert, update
\* or delete appends exactly one record of 12 + key_len + value_len bytes at
\* the previous end of the file and leaves the earlier bytes unchanged; open,
\* load, get and find never change the file; and the record of the
\* serialized index is never written into it.
C17_AppendOnly ==
    [][/\ (last'.op \in {"insert", "update", "delete"} /\ last'.result = Ok)
            => /\ Len(data_file') = Len(data_file) + 12 + Len(last'.key)
                                        + Len(last'.value)
               /\ SubSeq(data_file', 1, Len(data_file)) = data_file
               /\ \A r \in process_records(data_file', Len(data_file)) :
                    /\ r.kind = "ok"
                    /\ r.key = last'.key
                    /\ r.value = last'.value
                    /\ r.pos = Len(data_file')
       /\ last'.op \in {"open", "load", "get", "find", "close"}
            => data_file' = data_file
       /\ data_file' # data_file
            => \A s \in find_loop(data_file', INDEX_KEY, 0, None) : s.result = None]_vars

\* a second record, a tombstone, was appended behind a first record
C17_Witness ==
    /\ last.op = "delete"
    /\ last.result = Ok
    /\ Len(hist) = 2
    /\ Len(data_file) = RecordSize(hist[1]) + HEADER_LEN + Len(last.key)
    /\ index_file # <<>>

\* the data file ends inside its last record: it lost the tail of the last
\* append and kept at least one byte of it
Torn ==
    /\ hist # <<>>
    /\ Len(data_file) > RecordOffset(Len(hist))
    /\ Len(data_file) < Len(Log(Len(hist)))
    /\ data_file = SubSeq(Log(Len(hist)), 1, Len(data_file))

\* C18: when the data file ends in the middle of a record, inside the
\* 12-byte header or inside the key and value bytes, find fails with
\* TruncatedRecord; only the end of the file at a record boundary ends the
\* scan normally.
C18_TornTail ==
    [][(last'.op = "find" /\ Torn) => last'.result = TruncatedRecord]_vars

\* the header at pos of f holds lengths whose sum does not fit in 32 bits
Overflows(f, pos) ==
    /\ Len(f) - pos >= HEADER_LEN
    /\ U32Add(U32(Slice(f, pos + 4, pos + 8)), U32(Slice(f, pos + 8, pos + 12))).ovf

\* C19: for a record header with key_len + value_len >= 2^32 the decoder
\* computes data_len as the true 64-bit sum, neither wrapped modulo 2^32 nor
\* aborting on the overflow, and then reads that many bytes or fails with
\* OversizedRecord; no file of the model holds 2^32 bytes, so the positional
\* read of such a record fails with OversizedRecord.
C19_WideLength ==
    [][(last'.op = "get_at" /\ kv[last'.h].open
            /\ Overflows(data_file, last'.offset))
        => last'.result = OversizedRecord]_vars

\* C20: in every reachable state the map serialized in the index file has no
\* entry for +index, and after any load or get the in-memory index has no
\* entry for +index.
C20_NoReservedEntry ==
    /\ INDEX_KEY \notin DOMAIN PersistedIndex
    /\ (last.op \in {"load", "get"} /\ kv[last.h].open)
            => INDEX_KEY \notin DOMAIN kv[last.h].index

\* the results that get(key) can return on the engine e over the files d, x
\* once insert(written, value) was called on it
GetAfterInsert(e, d, x, written, value, key) ==
    UNION {GetOn(r.e, r.data, r.index, key) : r \in insert(e, d, x, written, value)}

\* C21: get is observationally read-only.  It changes neither the data file
\* nor the index file; a get that follows it without a mutation in between
\* returns what it would have returned before it, so two consecutive gets
\* return the same results in either order; and the replacement of the
\* in-memory index by the persisted one never changes what any later get
\* returns, a get after a further insert included.
C21_GetReadOnly ==
    [][(last'.op = "get" /\ kv[last'.h].open /\ kv'[last'.h].open)
        => /\ data_file' = data_file
           /\ index_file' = index_file
           /\ \A key \in UserKeys :
                GetOn(kv'[last'.h], data_file', index_file', key)
                    = GetOn(kv[last'.h], data_file, index_file, key)
           /\ \A written \in UserKeys, value \in Values, key \in UserKeys :
                GetAfterInsert(kv'[last'.h], data_file', index_file',
                               written, value, key)
                    = GetAfterInsert(kv[last'.h], data_file, index_file,
                                     written, value, key)]_vars

==============================================================================
